---- MODULE Spec2Model ----
(***************************************************************************)
(* Aliyun CDT tracker & ECS control worker (per-region, per-instance      *)
(* variant, src/src/index.js lines 227-468).                               *)
(*                                                                         *)
(* One run of handleSchedule is modelled as a sequence of steps, one per   *)
(* await point: the code between two network calls is one atomic step.     *)
(* A signed request is appended to `calls` when it is issued; the reply    *)
(* (success with a payload, or a thrown error) is chosen by the step that  *)
(* resumes the run.                                                        *)
(***************************************************************************)
EXTENDS Integers, Sequences, FiniteSets, TLC

\* ------------------------------------------------------------------ bounds
MaxInstances == 2          \* longest ECS_INSTANCES_JSON array explored
MaxRecords == 2            \* longest TrafficDetails list explored
MaxFeed == 1               \* longest TrafficDetails list the provider serves
                           \* when the list is part of the state

\* ------------------------------------------------------- program constants
BytesPerGB == 1024 * 1024 * 1024

\* ------------------------------------------------------------ input sets
Regions == {"cn-hongkong", "cn-shenzhen"}

Statuses == {"Running", "Starting", "Stopped", "Stopping", "Pending"}

\* A threshold as written in the JSON config: a number, a non-numeric
\* string, or a value that parseFloat reads as Infinity.
RawNum(n) == [type |-> "number", n |-> n]
RawText == [type |-> "text", n |-> 0]
RawInfinity == [type |-> "infinity", n |-> 0]

Entry(r, id, th) == [region |-> r, id |-> id, threshold |-> th]

ValidEntries ==
    { Entry(r, "i-a", RawNum(n)) : r \in Regions, n \in {1, 2} }

OddEntries ==
    { Entry("", "i-a", RawNum(1)),
      Entry("cn-hongkong", "", RawNum(1)),
      Entry("cn-hongkong", "i-a", RawText),
      Entry("cn-hongkong", "i-a", RawNum(-1)),
      Entry("cn-hongkong", "i-a", RawInfinity) }

Entries == ValidEntries \cup OddEntries

SeqsUpTo(S, n) == UNION { [1..m -> S] : m \in 0..n }

\* The text of ECS_INSTANCES_JSON: absent, not JSON, JSON that is not an
\* array, or a JSON array of entries.
JsonText(kind, items) == [kind |-> kind, items |-> items]

JsonInputs ==
    { JsonText(k, <<>>) : k \in {"absent", "garbage", "object", "number", "null"} }
    \cup { JsonText("array", s) : s \in SeqsUpTo(Entries, MaxInstances) }

Envs ==
    [ACCESS_KEY_ID : {"", "LTAI"},
     ACCESS_KEY_SECRET : {"", "secret"},
     ECS_INSTANCES_JSON : JsonInputs]

\* A TrafficDetails record; either field may be missing.
TrafficCounts == {BytesPerGB \div 2, BytesPerGB}

Details ==
    { [BusinessRegionId |-> r, Traffic |-> t] : r \in Regions, t \in TrafficCounts }
    \cup { [BusinessRegionId |-> r] : r \in Regions }
    \cup { [Traffic |-> t] : t \in TrafficCounts }
    \cup { [BusinessRegionId |-> "", Traffic |-> t] : t \in TrafficCounts }

DetailLists == SeqsUpTo(Details, MaxRecords)

\* ------------------------------------------------------------- GB values
\* A number of gigabytes is kept exactly as whole + frac / BytesPerGB.
ZeroGB == [whole |-> 0, frac |-> 0]

\* traffic / (1024 ** 3)
ToGB(bytes) == [whole |-> bytes \div BytesPerGB, frac |-> bytes % BytesPerGB]

\* a + b on gigabyte values
AddGB(a, b) ==
    LET f == a.frac + b.frac
    IN [whole |-> a.whole + b.whole + (f \div BytesPerGB), frac |-> f % BytesPerGB]

\* ---------------------------------------------------- getTrafficByRegion
\* detail.BusinessRegionId, "" when the field is missing (both are falsy)
DetailRegion(d) ==
    IF "BusinessRegionId" \in DOMAIN d THEN d.BusinessRegionId ELSE ""

\* detail.Traffic || 0
DetailTraffic(d) ==
    IF "Traffic" \in DOMAIN d /\ d.Traffic # 0 THEN d.Traffic ELSE 0

\* Body of the for loop with `=` written for `+=`: the last record wins.
AccumulateOverwrite(m, d) ==
    LET region == DetailRegion(d)
    IN IF region = "" THEN m
       ELSE [r \in (DOMAIN m) \cup {region} |->
                IF r = region THEN ToGB(DetailTraffic(d)) ELSE m[r]]

\* Body of the for loop of getTrafficByRegion: one record folded into the
\* mapping built so far.
Accumulate(m, d) ==
    LET region == DetailRegion(d)
        base == IF region \notin DOMAIN m \/ m[region] = ZeroGB
                THEN ZeroGB ELSE m[region]
    IN IF region = "" THEN m
       ELSE [r \in (DOMAIN m) \cup {region} |->
                IF r = region THEN AddGB(base, ToGB(DetailTraffic(d))) ELSE m[r]]

RECURSIVE FoldDetails(_, _, _)
FoldDetails(m, details, k) ==
    IF k > Len(details) THEN m
    ELSE FoldDetails(Accumulate(m, details[k]), details, k + 1)

\* getTrafficByRegion applied to the TrafficDetails of a successful reply
GetTrafficByRegion(details) == FoldDetails(<<>>, details, 1)

\* ---------------------------------------------------------- handleSchedule
\* the same check with the ACCESS_KEY_SECRET test left out
MissingEnvNoSecret(e) ==
    \/ e.ACCESS_KEY_ID = ""
    \/ e.ECS_INSTANCES_JSON.kind = "absent"

\* !ACCESS_KEY_ID || !ACCESS_KEY_SECRET || !ECS_INSTANCES_JSON
MissingEnv(e) ==
    \/ e.ACCESS_KEY_ID = ""
    \/ e.ACCESS_KEY_SECRET = ""
    \/ e.ECS_INSTANCES_JSON.kind = "absent"

\* JSON.parse(ECS_INSTANCES_JSON): throws on text that is not JSON,
\* otherwise yields the value the text denotes.
JSONParse(text) ==
    IF text.kind \in {"absent", "garbage"}
    THEN [ok |-> FALSE, kind |-> "none", items |-> <<>>]
    ELSE [ok |-> TRUE, kind |-> text.kind, items |-> text.items]

\* for (const inst of instances) needs an iterable value
Iterable(v) == v.kind = "array"

\* parseFloat(inst.threshold)
NaN == [kind |-> "NaN", n |-> 0]
Infinity == [kind |-> "Infinity", n |-> 0]
Finite(n) == [kind |-> "finite", n |-> n]

ParseFloat(raw) ==
    CASE raw.type = "number" -> Finite(raw.n)
      [] raw.type = "infinity" -> Infinity
      [] OTHER -> NaN

\* !regionId || !instanceId || isNaN(threshold)
InvalidConfig(inst) ==
    \/ inst.region = ""
    \/ inst.id = ""
    \/ ParseFloat(inst.threshold).kind = "NaN"

\* trafficByRegion[regionId] || 0, with unseen regions failing closed
TrafficOfFailClosed(m, region) ==
    IF region \in DOMAIN m THEN m[region] ELSE [whole |-> 1000, frac |-> 0]

\* trafficByRegion[regionId] || 0, ignoring the mapping
TrafficOfIgnored(m, region) == ZeroGB

\* trafficByRegion[regionId] || 0
TrafficOf(m, region) ==
    IF region \in DOMAIN m /\ m[region] # ZeroGB THEN m[region] ELSE ZeroGB

\* regionTrafficGB <= threshold
AtOrBelowThreshold(t, th) ==
    \/ th.kind = "Infinity"
    \/ th.kind = "finite" /\ (t.whole < th.n \/ (t.whole = th.n /\ t.frac = 0))

\* regionTrafficGB < threshold
BelowThreshold(t, th) ==
    \/ th.kind = "Infinity"
    \/ th.kind = "finite" /\ t.whole < th.n

\* instanceStatus !== "Running"
NeedsStartNoStarting(status) == status # "Running"

\* instanceStatus !== "Running" && instanceStatus !== "Starting"
NeedsStart(status) == status # "Running" /\ status # "Starting"

\* instanceStatus !== "Stopped"
NeedsStopNoStopping(status) == status # "Stopped"

\* instanceStatus !== "Stopped" && instanceStatus !== "Stopping"
NeedsStop(status) == status # "Stopped" /\ status # "Stopping"

\* ------------------------------------------------- sign and percentEncode
\* A string is a sequence of pieces: a run of unreserved characters
\* (letters, digits, - _ . ~), one other character, or the base64 text of a
\* MAC.  Two strings with the same sequence of pieces are the same string.
Run(s) == [t |-> "run", v |-> s]
Chr(c) == [t |-> "chr", v |-> c]
Text(s) == << Run(s) >>

\* The two hexadecimal digits of the characters that occur.
Hex(c) ==
    CASE c = "/" -> "2F"
      [] c = ":" -> "3A"
      [] c = "=" -> "3D"
      [] c = "&" -> "26"
      [] c = "%" -> "25"
      [] c = "[" -> "5B"
      [] c = "]" -> "5D"
      [] c = "\"" -> "22"
      [] c = "*" -> "2A"
      [] c = "!" -> "21"

\* encodeURIComponent on one piece: ! ' ( ) * are left as they are, every
\* other character outside the unreserved ones is escaped; the base64 text
\* has its + / = escaped.
EncodeURIComponent(p) ==
    CASE p.t = "run" -> << p >>
      [] p.t = "b64" -> << [t |-> "b64enc", v |-> p.v] >>
      [] p.t = "b64enc" -> << [t |-> "b64enc2", v |-> p.v] >>
      [] p.t = "chr" /\ p.v \in {"!", "*"} -> << p >>
      [] OTHER -> << Chr("%"), Run(Hex(p.v)) >>

\* The replace calls of percentEncode on what encodeURIComponent gave for
\* one piece of the input: ! and * are escaped after all.  (%7E never
\* occurs: ~ is left alone by encodeURIComponent.)
Replaced(q) ==
    IF Len(q) = 1 /\ q[1].t = "chr" /\ q[1].v \in {"!", "*"}
    THEN << Chr("%"), Run(Hex(q[1].v)) >>
    ELSE q

\* percentEncode(str)
RECURSIVE PercentEncode(_)
PercentEncode(str) ==
    IF str = <<>> THEN <<>>
    ELSE Replaced(EncodeURIComponent(Head(str))) \o PercentEncode(Tail(str))

\* A JavaScript object with string keys: its properties in insertion order.
Prop(k, v) == [key |-> k, value |-> v]

\* Object.keys(obj)
ObjectKeys(obj) == [n \in 1..Len(obj) |-> obj[n].key]

\* obj[k], for a key the object has
Value(obj, k) == obj[CHOOSE n \in 1..Len(obj) : obj[n].key = k].value

\* obj[k] = v: a property that exists keeps its place, a new one goes last.
Assign(obj, k, v) ==
    IF \E n \in 1..Len(obj) : obj[n].key = k
    THEN [n \in 1..Len(obj) |-> IF obj[n].key = k THEN Prop(k, v) ELSE obj[n]]
    ELSE Append(obj, Prop(k, v))

\* The parameter names of the requests, in ascending order of their UTF-16
\* code units: the order Array.prototype.sort() puts them in.
KeyOrder ==
    << "AccessKeyId", "Action", "ForceStop", "Format", "InstanceIds",
       "RegionId", "Signature", "SignatureMethod", "SignatureNonce",
       "SignatureVersion", "Timestamp", "Version" >>

\* keys.sort()
Sort(keys) ==
    SelectSeq(KeyOrder, LAMBDA k : \E n \in 1..Len(keys) : keys[n] = k)

\* keys.map(key => percentEncode(key) + "=" + percentEncode(String(obj[key])))
\*     .join("&"), from position n of keys on
RECURSIVE JoinPairs(_, _, _)
JoinPairs(obj, keys, n) ==
    IF n > Len(keys) THEN <<>>
    ELSE (IF n > 1 THEN << Chr("&") >> ELSE <<>>)
         \o PercentEncode(Text(keys[n])) \o << Chr("=") >>
         \o PercentEncode(Value(obj, keys[n]))
         \o JoinPairs(obj, keys, n + 1)

\* canonicalizedQueryString of sign
CanonicalizedQueryString(params) == JoinPairs(params, Sort(ObjectKeys(params)), 1)

\* queryString of requestAliyun
QueryString(finalParams) ==
    JoinPairs(finalParams, Sort(ObjectKeys(finalParams)), 1)

\* method.toUpperCase()
ToUpperCase(method) == IF method = "post" THEN "POST" ELSE method

\* stringToSign of sign
StringToSign(method, canonical) ==
    Text(ToUpperCase(method)) \o << Chr("&") >>
    \o PercentEncode(<< Chr("/") >>) \o << Chr("&") >>
    \o PercentEncode(canonical)

\* hmacSha1(key, data): the base64 text of the HMAC-SHA1 of data under key.
\* The MAC is kept as the pair it is computed from, so two signatures are
\* equal here only when they are computed from the same key and data.
HmacSha1(key, data) == << [t |-> "b64", v |-> [key |-> key, data |-> data]] >>

\* sign with the .sort() call left out: the keys in insertion order.
SignUnsorted(params, accessKeySecret, method) ==
    HmacSha1(accessKeySecret \o << Chr("&") >>,
             StringToSign(method, JoinPairs(params, ObjectKeys(params), 1)))

\* sign(params, accessKeySecret, method)
Sign(params, accessKeySecret, method) ==
    HmacSha1(accessKeySecret \o << Chr("&") >>,
             StringToSign(method, CanonicalizedQueryString(params)))

\* ------------------------------------------------------------------ state
VARIABLES
    env,              \* the Worker's environment bindings
    pc,               \* where the run is suspended
    instances,        \* JSON.parse(ECS_INSTANCES_JSON)
    trafficByRegion,  \* result of getTrafficByRegion
    i,                \* position of the entry being processed (0: none yet)
    regionTrafficGB,  \* traffic figure of the entry being processed
    threshold,        \* parsed threshold of the entry being processed
    calls,            \* signed requests issued so far, in order
    decisions,        \* entries whose status was read, with what was compared
    skipped,          \* positions logged as "Invalid instance config"
    caught,           \* what console.error reported when the run ended early
    trafficDetails,   \* TrafficDetails being aggregated
    d,                \* number of TrafficDetails records folded so far
    response,         \* what the fetch entry point answered (0: nothing yet)
    ecs,              \* the provider's status of each configured instance
    other,            \* a second, overlapping run while it is suspended
    previous,         \* how the run before this one ended
    request           \* the signed request being put together and sent

vars ==
    <<env, pc, instances, trafficByRegion, i, regionTrafficGB, threshold,
      calls, decisions, skipped, caught, trafficDetails, d,
      response, ecs, other, previous, request>>

\* What lies outside one run: the caller of fetch, the provider's
\* instances, a concurrent run, and the inside of requestAliyun.
world == <<response, ecs, other, previous, request>>

runVars ==
    <<env, pc, instances, i, regionTrafficGB, threshold,
      calls, decisions, skipped, caught>>

NoValue == [ok |-> FALSE, kind |-> "none", items |-> <<>>]
NoError == [kind |-> "none", idx |-> 0]
NoRun == [pc |-> "none"]
NoRequest == [pc |-> "none"]
NoEcs == [r \in Regions |-> "Pending"]
Call(action, idx) == [action |-> action, idx |-> idx]

Init ==
    /\ env \in Envs
    /\ pc = "start"
    /\ instances = NoValue
    /\ trafficByRegion = <<>>
    /\ i = 0
    /\ regionTrafficGB = ZeroGB
    /\ threshold = NaN
    /\ calls = <<>>
    /\ decisions = <<>>
    /\ skipped = {}
    /\ caught = NoError
    /\ trafficDetails = <<>>
    /\ d = 0
    /\ response = 0
    /\ ecs = NoEcs
    /\ other = NoRun
    /\ previous = NoRun
    /\ request = NoRequest

\* The run ends: by return, or in the catch block of handleSchedule.
Finish(kind, idx) ==
    /\ pc' = "done"
    /\ caught' = [kind |-> kind, idx |-> idx]

\* Position of the first entry at or after k that passes the validity
\* check, Len + 1 when there is none.
RECURSIVE NextIndex(_, _)
NextIndex(items, k) ==
    IF k > Len(items) THEN k
    ELSE IF InvalidConfig(items[k]) THEN NextIndex(items, k + 1)
    ELSE k

\* The for loop with the traffic listing fetched anew for every entry.
LoopFromRefetch(k, tbr, issued) ==
    LET items == instances.items
        j == NextIndex(items, k)
    IN /\ skipped' = skipped \cup (k..(j - 1))
       /\ i' = j
       /\ IF j > Len(items)
          THEN /\ Finish("none", 0)
               /\ calls' = issued
               /\ UNCHANGED <<regionTrafficGB, threshold>>
          ELSE /\ pc' = "awaitDescribe"
               /\ regionTrafficGB' = TrafficOf(tbr, items[j].region)
               /\ threshold' = ParseFloat(items[j].threshold)
               /\ calls' = Append(Append(issued, Call("ListCdtInternetTraffic", 0)),
                                  Call("DescribeInstances", j))
               /\ UNCHANGED caught

\* The for loop from position k up to its next await: invalid entries are
\* logged and skipped, and for the first valid one the traffic figure is
\* resolved and the describe request is issued.
LoopFrom(k, tbr, issued) ==
    LET items == instances.items
        j == NextIndex(items, k)
    IN /\ skipped' = skipped \cup (k..(j - 1))
       /\ i' = j
       /\ IF j > Len(items)
          THEN /\ Finish("none", 0)
               /\ calls' = issued
               /\ UNCHANGED <<regionTrafficGB, threshold>>
          ELSE /\ pc' = "awaitDescribe"
               /\ regionTrafficGB' = TrafficOf(tbr, items[j].region)
               /\ threshold' = ParseFloat(items[j].threshold)
               /\ calls' = Append(issued, Call("DescribeInstances", j))
               /\ UNCHANGED caught

\* handleSchedule up to its first await: the environment check, JSON.parse
\* and the traffic-listing request.
Begin ==
    /\ pc = "start"
    /\ IF MissingEnv(env)
       THEN /\ Finish("MissingEnv", 0)
            /\ UNCHANGED <<instances, calls>>
       ELSE IF ~JSONParse(env.ECS_INSTANCES_JSON).ok
       THEN /\ Finish("InvalidJson", 0)
            /\ UNCHANGED <<instances, calls>>
       ELSE /\ instances' = JSONParse(env.ECS_INSTANCES_JSON)
            /\ calls' = Append(calls, Call("ListCdtInternetTraffic", 0))
            /\ pc' = "awaitTraffic"
            /\ UNCHANGED caught
    /\ UNCHANGED <<env, trafficByRegion, i, regionTrafficGB, threshold,
                   decisions, skipped, trafficDetails, d>>

\* getTrafficByRegion swallowing the failure and handing back an empty
\* mapping: the loop goes ahead with zero traffic.
TrafficFailsProceeds ==
    /\ pc = "awaitTraffic"
    /\ IF Iterable(instances) /\ NextIndex(instances.items, 1) <= Len(instances.items)
       THEN LET j == NextIndex(instances.items, 1)
            IN /\ caught' = [kind |-> "TrafficError", idx |-> 0]
               /\ pc' = "awaitDescribe"
               /\ i' = j
               /\ skipped' = skipped \cup (1..(j - 1))
               /\ regionTrafficGB' = ZeroGB
               /\ threshold' = ParseFloat(instances.items[j].threshold)
               /\ calls' = Append(calls, Call("DescribeInstances", j))
       ELSE /\ Finish("TrafficError", 0)
            /\ UNCHANGED <<i, regionTrafficGB, threshold, calls, skipped>>
    /\ UNCHANGED <<env, instances, trafficByRegion, decisions, trafficDetails, d>>

\* The traffic-listing request throws (HTTP error, network failure or a
\* body that is not JSON): the outer catch ends the run.
TrafficFails ==
    /\ pc = "awaitTraffic"
    /\ Finish("TrafficError", 0)
    /\ UNCHANGED <<env, instances, trafficByRegion, i, regionTrafficGB,
                   threshold, calls, decisions, skipped, trafficDetails, d>>

\* The traffic-listing request returns: the mapping is built and the for
\* loop starts.
TrafficReturnsWith(details) ==
    /\ pc = "awaitTraffic"
    /\ trafficByRegion' = GetTrafficByRegion(details)
    /\ IF Iterable(instances)
       THEN LoopFrom(1, trafficByRegion', calls)
       ELSE /\ Finish("NotIterable", 0)
            /\ UNCHANGED <<i, regionTrafficGB, threshold, calls, skipped>>
    /\ UNCHANGED <<env, instances, decisions, trafficDetails, d>>

\* The reply carries any list of records.
TrafficReturns == \E details \in DetailLists : TrafficReturnsWith(details)

\* getEcsStatus with a missing instance defaulted to an unknown status
\* instead of throwing: the decision goes ahead.
DescribeFailsDefaulted ==
    /\ pc = "awaitDescribe"
    /\ caught' = [kind |-> "NotFound", idx |-> i]
    /\ calls' = Append(calls,
          Call(IF BelowThreshold(regionTrafficGB, threshold)
               THEN "StartInstances" ELSE "StopInstances", i))
    /\ pc' = "awaitAction"
    /\ UNCHANGED <<env, instances, trafficByRegion, i, regionTrafficGB,
                   threshold, decisions, skipped, trafficDetails, d>>

\* getEcsStatus throws: the request failed, or no instance matched.
DescribeFails ==
    /\ pc = "awaitDescribe"
    /\ \E kind \in {"DescribeError", "NotFound"} : Finish(kind, i)
    /\ UNCHANGED <<env, instances, trafficByRegion, i, regionTrafficGB,
                   threshold, calls, decisions, skipped, trafficDetails, d>>

\* The control logic with an instance found stopped over its threshold
\* started again: the direction follows the observed status.
DescribeReturnsByStatus ==
    /\ pc = "awaitDescribe"
    /\ \E status \in Statuses :
          /\ decisions' = Append(decisions,
                [idx |-> i, traffic |-> regionTrafficGB,
                 threshold |-> threshold, status |-> status])
          /\ calls' = Append(calls,
                Call(IF BelowThreshold(regionTrafficGB, threshold) \/ ~NeedsStop(status)
                     THEN "StartInstances" ELSE "StopInstances", i))
          /\ pc' = "awaitAction"
          /\ UNCHANGED <<i, regionTrafficGB, threshold, skipped, caught>>
    /\ UNCHANGED <<env, instances, trafficByRegion, trafficDetails, d>>

\* getEcsStatus returns a status: the start/stop decision is made.
DescribeReturns ==
    /\ pc = "awaitDescribe"
    /\ \E status \in Statuses :
          /\ decisions' = Append(decisions,
                [idx |-> i, traffic |-> regionTrafficGB,
                 threshold |-> threshold, status |-> status])
          /\ IF BelowThreshold(regionTrafficGB, threshold)
             THEN IF NeedsStart(status)
                  THEN /\ calls' = Append(calls, Call("StartInstances", i))
                       /\ pc' = "awaitAction"
                       /\ UNCHANGED <<i, regionTrafficGB, threshold, skipped, caught>>
                  ELSE LoopFrom(i + 1, trafficByRegion, calls)
             ELSE IF NeedsStop(status)
                  THEN /\ calls' = Append(calls, Call("StopInstances", i))
                       /\ pc' = "awaitAction"
                       /\ UNCHANGED <<i, regionTrafficGB, threshold, skipped, caught>>
                  ELSE LoopFrom(i + 1, trafficByRegion, calls)
    /\ UNCHANGED <<env, instances, trafficByRegion, trafficDetails, d>>

\* startEcsInstance / stopEcsInstance throws and the request is sent once
\* more before giving up.
ActionFailsRetry ==
    /\ pc = "awaitAction"
    /\ IF Len(calls) >= 2 /\ calls[Len(calls)] = calls[Len(calls) - 1]
       THEN /\ Finish("ActionError", i)
            /\ UNCHANGED calls
       ELSE /\ calls' = Append(calls, calls[Len(calls)])
            /\ UNCHANGED <<pc, caught>>
    /\ UNCHANGED <<env, instances, trafficByRegion, i, regionTrafficGB,
                   threshold, decisions, skipped, trafficDetails, d>>

\* startEcsInstance / stopEcsInstance throws.
ActionFails ==
    /\ pc = "awaitAction"
    /\ Finish("ActionError", i)
    /\ UNCHANGED <<env, instances, trafficByRegion, i, regionTrafficGB,
                   threshold, calls, decisions, skipped, trafficDetails, d>>

\* The action returns and the same entry is described once more to confirm
\* the outcome before moving on.
ActionReturnsRecheck ==
    /\ pc = "awaitAction"
    /\ IF Cardinality({ n \in 1..Len(calls) :
                          calls[n] = Call("DescribeInstances", i) }) = 1
       THEN LoopFrom(i, trafficByRegion, calls)
       ELSE LoopFrom(i + 1, trafficByRegion, calls)
    /\ UNCHANGED <<env, instances, trafficByRegion, decisions,
                   trafficDetails, d>>

\* startEcsInstance / stopEcsInstance returns: on to the next entry.
ActionReturns ==
    /\ pc = "awaitAction"
    /\ LoopFrom(i + 1, trafficByRegion, calls)
    /\ UNCHANGED <<env, instances, trafficByRegion, decisions,
                   trafficDetails, d>>

Next ==
    \/ Begin /\ UNCHANGED world
    \/ TrafficFails /\ UNCHANGED world
    \/ TrafficReturns /\ UNCHANGED world
    \/ DescribeFails /\ UNCHANGED world
    \/ DescribeReturns /\ UNCHANGED world
    \/ ActionFails /\ UNCHANGED world
    \/ ActionReturns /\ UNCHANGED world

Spec == Init /\ [][Next]_vars

TypeOK ==
    /\ pc \in {"start", "awaitTraffic", "awaitDescribe", "awaitAction", "done"}
    /\ i \in 0..(MaxInstances + 1)
    /\ Len(calls) <= 1 + 2 * MaxInstances

\* ------------------------------------------------ a run whose calls all end
\* Every awaited request eventually returns or throws, and the runtime
\* resumes the handler: no step of the run stays enabled forever untaken.
SpecLive == Init /\ [][Next]_vars /\ WF_vars(Next)

\* --------------------------------------------------- the fetch entry point
\* The same, with JSON.parse left outside any try block.
HandledNoParseTry(c) ==
    \/ c.kind \in {"none", "MissingEnv"}
    \/ c.kind \in {"TrafficError", "NotIterable", "NotFound",
                   "DescribeError", "ActionError"}

\* A run that ended this way ended inside handleSchedule: by falling off the
\* end or by one of its two returns, or in one of its two catch blocks.
Handled(c) ==
    \/ c.kind \in {"none", "MissingEnv"}
    \/ c.kind = "InvalidJson"
    \/ c.kind \in {"TrafficError", "NotIterable", "NotFound",
                   "DescribeError", "ActionError"}

\* fetch: after await handleSchedule(env) the success response is built; an
\* exception that escaped handleSchedule would reach the runtime, which
\* answers with an error.
FetchReturns ==
    /\ pc = "done"
    /\ response = 0
    /\ response' = IF Handled(caught) THEN 200 ELSE 500
    /\ UNCHANGED <<env, pc, instances, trafficByRegion, i, regionTrafficGB,
                   threshold, calls, decisions, skipped, caught,
                   trafficDetails, d, ecs, other, previous, request>>

NextFetch ==
    \/ Next
    \/ FetchReturns

SpecFetch == Init /\ [][NextFetch]_vars

\* ------------------------------------------ runs against a provider, in turn
\* The provider holds the status of the instance "i-a" of each region and
\* the TrafficDetails it serves; the cron trigger starts a run when the one
\* before it has ended.

\* Instance lists naming each instance once.
TickConfigs ==
    { s \in SeqsUpTo(ValidEntries, MaxInstances) :
        \A a \in DOMAIN s, b \in DOMAIN s : a # b => s[a].region # s[b].region }

\* The records the provider serves: one gigabyte in a named region.
FeedDetails ==
    { [BusinessRegionId |-> r, Traffic |-> BytesPerGB] : r \in Regions }

FeedLists == SeqsUpTo(FeedDetails, MaxFeed)

InitTicks ==
    /\ env \in [ACCESS_KEY_ID : {"LTAI"},
                ACCESS_KEY_SECRET : {"secret"},
                ECS_INSTANCES_JSON : { JsonText("array", s) : s \in TickConfigs }]
    /\ pc = "start"
    /\ instances = NoValue
    /\ trafficByRegion = <<>>
    /\ i = 0
    /\ regionTrafficGB = ZeroGB
    /\ threshold = NaN
    /\ calls = <<>>
    /\ decisions = <<>>
    /\ skipped = {}
    /\ caught = NoError
    /\ trafficDetails \in FeedLists
    /\ d = 0
    /\ response = 0
    /\ ecs \in [Regions -> Statuses]
    /\ \A r \in Regions :
          (\A k \in DOMAIN env.ECS_INSTANCES_JSON.items :
              env.ECS_INSTANCES_JSON.items[k].region # r) => ecs[r] = NoEcs[r]
    /\ other = NoRun
    /\ previous = NoRun
    /\ request = NoRequest

\* The reply to ListCdtInternetTraffic is what the provider holds.
TrafficServed == TrafficReturnsWith(trafficDetails)

\* The reply to DescribeInstances is the instance's status at the provider.
StatusServed ==
    /\ DescribeReturns
    /\ decisions'[Len(decisions')].status = ecs[instances.items[i].region]

\* StartInstances at the provider: an instance that is not running or
\* starting begins to start.
ProviderStart(s) == IF s \in {"Running", "Starting"} THEN s ELSE "Starting"

\* StopInstances at a provider where a second stop undoes the first.
ProviderStopToggle(s) == IF s \in {"Stopped", "Stopping"} THEN "Starting" ELSE "Stopping"

\* StopInstances at the provider: an instance that is not stopped or
\* stopping begins to stop; stopping twice is stopping once.
ProviderStop(s) == IF s \in {"Stopped", "Stopping"} THEN s ELSE "Stopping"

\* The provider carries out the start or stop request `call`.
Carried(call, e) ==
    LET r == instances.items[call.idx].region
    IN [e EXCEPT ![r] = IF call.action = "StartInstances"
                        THEN ProviderStart(e[r]) ELSE ProviderStop(e[r])]

\* The start/stop request is accepted and its reply returns.
ActionServed ==
    /\ ActionReturns
    /\ ecs' = Carried(calls[Len(calls)], ecs)

\* The provider completes a transition it has begun.
ProviderSettles ==
    /\ \E r \in Regions :
          /\ ecs[r] \in {"Starting", "Stopping"}
          /\ ecs' = [ecs EXCEPT ![r] = IF ecs[r] = "Starting"
                                       THEN "Running" ELSE "Stopped"]
    /\ UNCHANGED <<env, pc, instances, trafficByRegion, i, regionTrafficGB,
                   threshold, calls, decisions, skipped, caught,
                   trafficDetails, d, response, other, previous, request>>

\* Region r is at or over n gigabytes in the list `details`.
FeedReached(details, r, n) ==
    TrafficOf(GetTrafficByRegion(details), r).whole >= n

\* Between two runs the traffic moves, every configured instance staying on
\* the side of its threshold it was on.
TrafficMoves ==
    /\ pc = "done"
    /\ \E details \in FeedLists :
          /\ details # trafficDetails
          /\ \A k \in DOMAIN instances.items :
                LET e == instances.items[k]
                IN FeedReached(details, e.region, e.threshold.n)
                   <=> FeedReached(trafficDetails, e.region, e.threshold.n)
          /\ trafficDetails' = details
    /\ UNCHANGED <<env, pc, instances, trafficByRegion, i, regionTrafficGB,
                   threshold, calls, decisions, skipped, caught, d, world>>

\* scheduled: the next cron tick starts a new run of handleSchedule.
Restart ==
    /\ pc = "done"
    /\ pc' = "start"
    /\ instances' = NoValue
    /\ trafficByRegion' = <<>>
    /\ i' = 0
    /\ regionTrafficGB' = ZeroGB
    /\ threshold' = NaN
    /\ calls' = <<>>
    /\ decisions' = <<>>
    /\ skipped' = {}
    /\ caught' = NoError
    /\ UNCHANGED <<env, trafficDetails, d, response, ecs, other, request>>

NextTicks ==
    \/ Begin /\ UNCHANGED world
    \/ TrafficServed /\ UNCHANGED world
    \/ StatusServed /\ UNCHANGED world
    \/ ActionServed /\ UNCHANGED <<response, other, previous, request>>
    \/ ProviderSettles
    \/ TrafficMoves
    \/ Restart /\ UNCHANGED previous

\* Every call returns, the provider finishes what it began, and the cron
\* trigger keeps firing.
FairTicks ==
    /\ WF_vars(Begin /\ UNCHANGED world)
    /\ WF_vars(TrafficServed /\ UNCHANGED world)
    /\ WF_vars(StatusServed /\ UNCHANGED world)
    /\ WF_vars(ActionServed /\ UNCHANGED <<response, other, previous, request>>)
    /\ WF_vars(ProviderSettles)
    /\ WF_vars(Restart /\ UNCHANGED previous)

SpecTicks == InitTicks /\ [][NextTicks]_vars /\ FairTicks

\* ---------------------------------- runs in turn, with calls that can fail
\* Between two runs the traffic at the provider changes freely.
TrafficChanges ==
    /\ pc = "done"
    /\ \E details \in FeedLists :
          /\ details # trafficDetails
          /\ trafficDetails' = details
    /\ UNCHANGED <<env, pc, instances, trafficByRegion, i, regionTrafficGB,
                   threshold, calls, decisions, skipped, caught, d, world>>

\* What is kept of a run when the next one starts.
Ended == [pc |-> "done", caught |-> caught, calls |-> calls]

NextRetry ==
    \/ Begin /\ UNCHANGED world
    \/ TrafficFails /\ UNCHANGED world
    \/ TrafficServed /\ UNCHANGED world
    \/ DescribeFails /\ UNCHANGED world
    \/ StatusServed /\ UNCHANGED world
    \/ ActionFails /\ UNCHANGED world
    \/ ActionServed /\ UNCHANGED <<response, other, previous, request>>
    \/ ProviderSettles
    \/ TrafficChanges
    \/ Restart /\ previous' = Ended

SpecRetry == InitTicks /\ [][NextRetry]_vars

\* ------------------------------------------------- two runs that overlap
\* A cron tick and a manual trigger (or two ticks) give two invocations of
\* handleSchedule alive at once.  They share the environment and the
\* provider and nothing else; the runtime resumes one of them at a time.
\* The run being resumed is in the run variables, the one waiting is the
\* record held in `other`.

FreshRun(name) ==
    [name |-> name, pc |-> "start", instances |-> NoValue,
     trafficByRegion |-> <<>>, i |-> 0, regionTrafficGB |-> ZeroGB,
     threshold |-> NaN, calls |-> <<>>, decisions |-> <<>>, skipped |-> {},
     caught |-> NoError]

\* The name of the run in the run variables.
Active == IF other.pc # "none" /\ other.name = "A" THEN "B" ELSE "A"

InitOverlap ==
    /\ env \in [ACCESS_KEY_ID : {"LTAI"},
                ACCESS_KEY_SECRET : {"secret"},
                ECS_INSTANCES_JSON : { JsonText("array", s) : s \in TickConfigs }]
    /\ pc = "start"
    /\ instances = NoValue
    /\ trafficByRegion = <<>>
    /\ i = 0
    /\ regionTrafficGB = ZeroGB
    /\ threshold = NaN
    /\ calls = <<>>
    /\ decisions = <<>>
    /\ skipped = {}
    /\ caught = NoError
    /\ trafficDetails = <<>>
    /\ d = 0
    /\ response = 0
    /\ ecs \in [Regions -> Statuses]
    /\ \A r \in Regions :
          (\A k \in DOMAIN env.ECS_INSTANCES_JSON.items :
              env.ECS_INSTANCES_JSON.items[k].region # r) => ecs[r] = NoEcs[r]
    /\ other = FreshRun("B")
    /\ previous = NoRun
    /\ request = NoRequest

\* The runtime leaves the current run at its await and resumes the other,
\* which has not ended yet.
Switch ==
    /\ other.pc \notin {"none", "done"}
    /\ other' = [name |-> Active, pc |-> pc, instances |-> instances,
                 trafficByRegion |-> trafficByRegion, i |-> i,
                 regionTrafficGB |-> regionTrafficGB, threshold |-> threshold,
                 calls |-> calls, decisions |-> decisions, skipped |-> skipped,
                 caught |-> caught]
    /\ pc' = other.pc
    /\ instances' = other.instances
    /\ trafficByRegion' = other.trafficByRegion
    /\ i' = other.i
    /\ regionTrafficGB' = other.regionTrafficGB
    /\ threshold' = other.threshold
    /\ calls' = other.calls
    /\ decisions' = other.decisions
    /\ skipped' = other.skipped
    /\ caught' = other.caught
    /\ UNCHANGED <<env, trafficDetails, d, response, ecs, previous, request>>

\* The reply to this run's ListCdtInternetTraffic: the traffic at the
\* provider at that moment, which need not be what the other run was told.
TrafficReplies == \E details \in FeedLists : TrafficReturnsWith(details)

\* The entries for which one of the two runs asked for a start and the other
\* for a stop.
Raced ==
    { k \in DOMAIN env.ECS_INSTANCES_JSON.items :
        \E m \in 1..Len(calls), n \in 1..Len(other.calls) :
           /\ calls[m].idx = k
           /\ other.calls[n].idx = k
           /\ {calls[m].action, other.calls[n].action}
                 = {"StartInstances", "StopInstances"} }

\* scheduled: both runs have ended and the next tick starts a run that has
\* the provider to itself.
NextSolo ==
    /\ pc = "done"
    /\ other.pc = "done"
    /\ pc' = "start"
    /\ instances' = NoValue
    /\ trafficByRegion' = <<>>
    /\ i' = 0
    /\ regionTrafficGB' = ZeroGB
    /\ threshold' = NaN
    /\ calls' = <<>>
    /\ decisions' = <<>>
    /\ skipped' = {}
    /\ caught' = NoError
    /\ other' = NoRun
    /\ previous' = [pc |-> "done", raced |-> Raced]
    /\ UNCHANGED <<env, trafficDetails, d, response, ecs, request>>

NextOverlap ==
    \/ Begin /\ UNCHANGED world
    \/ TrafficFails /\ UNCHANGED world
    \/ TrafficReplies /\ UNCHANGED world
    \/ DescribeFails /\ UNCHANGED world
    \/ StatusServed /\ UNCHANGED world
    \/ ActionFails /\ UNCHANGED world
    \/ ActionServed /\ UNCHANGED <<response, other, previous, request>>
    \/ ProviderSettles
    \/ Switch
    \/ NextSolo

SpecOverlap == InitOverlap /\ [][NextOverlap]_vars

\* ------------------------------- the single-threshold engine, side by side
\* The older handleSchedule (one instance named by REGION_ID and
\* ECS_INSTANCE_ID, one TRAFFIC_THRESHOLD_GB, the traffic of all records
\* added up) runs next to the per-region engine against the same provider:
\* the same TrafficDetails and the same instance status.  Its state is the
\* record held in `other`.

\* The environment of the older engine for the one entry of the config.
OldEnv(e) ==
    LET inst == e.ECS_INSTANCES_JSON.items[1]
    IN [ACCESS_KEY_ID |-> e.ACCESS_KEY_ID,
        ACCESS_KEY_SECRET |-> e.ACCESS_KEY_SECRET,
        REGION_ID |-> inst.region,
        ECS_INSTANCE_ID |-> inst.id,
        TRAFFIC_THRESHOLD_GB |-> inst.threshold]

\* !ACCESS_KEY_ID || !ACCESS_KEY_SECRET || !REGION_ID || !ECS_INSTANCE_ID
OldMissingEnv(oe) ==
    \/ oe.ACCESS_KEY_ID = ""
    \/ oe.ACCESS_KEY_SECRET = ""
    \/ oe.REGION_ID = ""
    \/ oe.ECS_INSTANCE_ID = ""

\* parseFloat(TRAFFIC_THRESHOLD_GB || "180"), the variable being set
OldThreshold(oe) == ParseFloat(oe.TRAFFIC_THRESHOLD_GB)

\* totalBytes += (detail.Traffic || 0) over the records from position k on,
\* kept in gigabytes: dividing by 1024 ** 3 is exact, so the sum of the
\* quotients is the quotient of the sum.
RECURSIVE SumTraffic(_, _)
SumTraffic(details, k) ==
    IF k > Len(details) THEN ZeroGB
    ELSE AddGB(ToGB(DetailTraffic(details[k])), SumTraffic(details, k + 1))

\* The total taken from the first record alone.
GetTotalTrafficGBFirst(details) ==
    IF details = <<>> THEN ZeroGB ELSE ToGB(DetailTraffic(details[1]))

\* getTotalTrafficGB applied to the TrafficDetails of a successful reply
GetTotalTrafficGB(details) == SumTraffic(details, 1)

OldInit ==
    [pc |-> "start", calls |-> <<>>, total |-> ZeroGB, threshold |-> NaN,
     caught |-> NoError]

OldFinish(kind) ==
    [other EXCEPT !.pc = "done", !.caught = [kind |-> kind, idx |-> 0]]

OldRest ==
    <<env, pc, instances, trafficByRegion, i, regionTrafficGB, threshold,
      calls, decisions, skipped, caught, trafficDetails, d,
      response, ecs, previous, request>>

\* The older handleSchedule up to its first await.
OldBegin ==
    /\ other.pc = "start"
    /\ other' = IF OldMissingEnv(OldEnv(env))
                THEN OldFinish("MissingEnv")
                ELSE [other EXCEPT
                        !.pc = "awaitTraffic",
                        !.threshold = OldThreshold(OldEnv(env)),
                        !.calls = Append(@, Call("ListCdtInternetTraffic", 0))]
    /\ UNCHANGED OldRest

\* getTotalTrafficGB throws.
OldTrafficFails ==
    /\ other.pc = "awaitTraffic"
    /\ other' = OldFinish("TrafficError")
    /\ UNCHANGED OldRest

\* getTotalTrafficGB returns the total and the describe request is issued.
OldTrafficReturns ==
    /\ other.pc = "awaitTraffic"
    /\ other' = [other EXCEPT
                   !.pc = "awaitDescribe",
                   !.total = GetTotalTrafficGB(trafficDetails),
                   !.calls = Append(@, Call("DescribeInstances", 1))]
    /\ UNCHANGED OldRest

\* getEcsStatus throws.
OldDescribeFails ==
    /\ other.pc = "awaitDescribe"
    /\ \E kind \in {"DescribeError", "NotFound"} : other' = OldFinish(kind)
    /\ UNCHANGED OldRest

\* getEcsStatus returns the status: the control logic of the older engine.
OldDescribeReturns ==
    /\ other.pc = "awaitDescribe"
    /\ LET status == ecs[OldEnv(env).REGION_ID]
       IN other' =
            IF BelowThreshold(other.total, other.threshold)
            THEN IF NeedsStart(status)
                 THEN [other EXCEPT !.pc = "awaitAction",
                                    !.calls = Append(@, Call("StartInstances", 1))]
                 ELSE OldFinish("none")
            ELSE IF NeedsStop(status)
                 THEN [other EXCEPT !.pc = "awaitAction",
                                    !.calls = Append(@, Call("StopInstances", 1))]
                 ELSE OldFinish("none")
    /\ UNCHANGED OldRest

\* startEcsInstance / stopEcsInstance throws.
OldActionFails ==
    /\ other.pc = "awaitAction"
    /\ other' = OldFinish("ActionError")
    /\ UNCHANGED OldRest

\* startEcsInstance / stopEcsInstance returns.
OldActionReturns ==
    /\ other.pc = "awaitAction"
    /\ other' = OldFinish("none")
    /\ UNCHANGED OldRest

\* One entry in the config; the provider serves any list of records and
\* holds any status for the instance.
InitDegenerate ==
    /\ env \in [ACCESS_KEY_ID : {"LTAI"},
                ACCESS_KEY_SECRET : {"secret"},
                ECS_INSTANCES_JSON : { JsonText("array", <<e>>) : e \in Entries }]
    /\ pc = "start"
    /\ instances = NoValue
    /\ trafficByRegion = <<>>
    /\ i = 0
    /\ regionTrafficGB = ZeroGB
    /\ threshold = NaN
    /\ calls = <<>>
    /\ decisions = <<>>
    /\ skipped = {}
    /\ caught = NoError
    /\ trafficDetails \in DetailLists
    /\ d = 0
    /\ response = 0
    /\ ecs \in [Regions -> Statuses]
    /\ \A r \in Regions :
          env.ECS_INSTANCES_JSON.items[1].region # r => ecs[r] = NoEcs[r]
    /\ other = OldInit
    /\ previous = NoRun
    /\ request = NoRequest

NextDegenerate ==
    \/ Begin /\ UNCHANGED world
    \/ TrafficFails /\ UNCHANGED world
    \/ TrafficServed /\ UNCHANGED world
    \/ DescribeFails /\ UNCHANGED world
    \/ StatusServed /\ UNCHANGED world
    \/ ActionFails /\ UNCHANGED world
    \/ ActionReturns /\ UNCHANGED world
    \/ OldBegin
    \/ OldTrafficFails
    \/ OldTrafficReturns
    \/ OldDescribeFails
    \/ OldDescribeReturns
    \/ OldActionFails
    \/ OldActionReturns

SpecDegenerate == InitDegenerate /\ [][NextDegenerate]_vars

\* ------------------------------------------------ requestAliyun on its own
\* One call of requestAliyun, from the params its caller hands over to the
\* reply: the state is the record held in `request`.

SignIds == {"i-a", "i-b"}

\* JSON.stringify([instanceId])
JsonIds(id) == << Chr("["), Chr("\""), Run(id), Chr("\""), Chr("]") >>

\* params of getTrafficByRegion
ListParams ==
    << Prop("Action", Text("ListCdtInternetTraffic")),
       Prop("Version", Text("2021-08-13")) >>

\* params of getEcsStatus and startEcsInstance
EcsParams(action, r, id) ==
    << Prop("Action", Text(action)),
       Prop("Version", Text("2014-05-26")),
       Prop("RegionId", Text(r)),
       Prop("InstanceIds", JsonIds(id)) >>

\* params of stopEcsInstance
StopParams(r, id) ==
    Append(EcsParams("StopInstances", r, id), Prop("ForceStop", Text("false")))

CallerParams ==
    {ListParams}
    \cup { EcsParams(a, r, id) :
             a \in {"DescribeInstances", "StartInstances"}, r \in Regions, id \in SignIds }
    \cup { StopParams(r, id) : r \in Regions, id \in SignIds }

\* crypto.randomUUID()
Nonces == { Text("3f2a-01"), Text("9c4e-02") }

\* new Date().toISOString() with the milliseconds cut off
Timestamps ==
    { << Run("2026-11-01T00"), Chr(":"), Run("00"), Chr(":"), Run(s) >> :
         s \in {"00Z", "01Z"} }

\* The object literal of requestAliyun: the caller's params spread first,
\* then the six common parameters.
FinalParams(params, e, nonce, timestamp) ==
    Assign(Assign(Assign(Assign(Assign(Assign(params,
        "AccessKeyId", Text(e.ACCESS_KEY_ID)),
        "Format", Text("JSON")),
        "SignatureMethod", Text("HMAC-SHA1")),
        "SignatureVersion", Text("1.0")),
        "SignatureNonce", nonce),
        "Timestamp", timestamp)

InitSign ==
    /\ env \in [ACCESS_KEY_ID : {"LTAI"},
                ACCESS_KEY_SECRET : {"secret"},
                ECS_INSTANCES_JSON : { JsonText("array", <<>>) }]
    /\ pc = "start"
    /\ instances = NoValue
    /\ trafficByRegion = <<>>
    /\ i = 0
    /\ regionTrafficGB = ZeroGB
    /\ threshold = NaN
    /\ calls = <<>>
    /\ decisions = <<>>
    /\ skipped = {}
    /\ caught = NoError
    /\ trafficDetails = <<>>
    /\ d = 0
    /\ response = 0
    /\ ecs = NoEcs
    /\ other = NoRun
    /\ previous = NoRun
    /\ request \in [pc : {"start"}, method : {"POST"}, params : CallerParams,
                    nonce : Nonces, timestamp : Timestamps,
                    finalParams : {<<>>}, signature : {<<>>},
                    queryString : {<<>>}]

SignRest ==
    <<env, pc, instances, trafficByRegion, i, regionTrafficGB, threshold,
      calls, decisions, skipped, caught, trafficDetails, d,
      response, ecs, other, previous>>

\* requestAliyun up to its first await: finalParams is built and sign is
\* called.
RequestBegins ==
    /\ request.pc = "start"
    /\ request' = [request EXCEPT
                     !.pc = "awaitSign",
                     !.finalParams = FinalParams(request.params, env,
                                        request.nonce, request.timestamp)]
    /\ UNCHANGED SignRest

\* sign returns: the signature is added to finalParams, the query string is
\* built and the request is sent.
SignReturns ==
    /\ request.pc = "awaitSign"
    /\ LET signature == Sign(request.finalParams,
                             Text(env.ACCESS_KEY_SECRET), request.method)
           signed == Assign(request.finalParams, "Signature", signature)
       IN request' = [request EXCEPT
                        !.pc = "awaitFetch",
                        !.signature = signature,
                        !.finalParams = signed,
                        !.queryString = QueryString(signed)]
    /\ UNCHANGED SignRest

\* The reply has an ok status: its JSON body is returned.
ReplyOk ==
    /\ request.pc = "awaitFetch"
    /\ request' = [request EXCEPT !.pc = "returned"]
    /\ UNCHANGED SignRest

\* The reply has an error status (or fetch itself fails): an Error is thrown.
ReplyError ==
    /\ request.pc = "awaitFetch"
    /\ request' = [request EXCEPT !.pc = "thrown"]
    /\ UNCHANGED SignRest

NextSign ==
    \/ RequestBegins
    \/ SignReturns
    \/ ReplyOk
    \/ ReplyError

SpecSign == InitSign /\ [][NextSign]_vars

\* ------------------------------------------- getTrafficByRegion on its own
\* The aggregation loop of getTrafficByRegion run record by record over
\* every TrafficDetails list.
InitAgg ==
    /\ trafficDetails \in DetailLists
    /\ d = 0
    /\ trafficByRegion = <<>>
    /\ env = [ACCESS_KEY_ID |-> "LTAI", ACCESS_KEY_SECRET |-> "secret",
              ECS_INSTANCES_JSON |-> JsonText("array", <<>>)]
    /\ pc = "awaitTraffic"
    /\ instances = JSONParse(env.ECS_INSTANCES_JSON)
    /\ i = 0
    /\ regionTrafficGB = ZeroGB
    /\ threshold = NaN
    /\ calls = <<Call("ListCdtInternetTraffic", 0)>>
    /\ decisions = <<>>
    /\ skipped = {}
    /\ caught = NoError
    /\ response = 0
    /\ ecs = NoEcs
    /\ other = NoRun
    /\ previous = NoRun
    /\ request = NoRequest

\* One iteration of for (const detail of trafficDetails)
AggStep ==
    /\ d < Len(trafficDetails)
    /\ trafficByRegion' = Accumulate(trafficByRegion, trafficDetails[d + 1])
    /\ d' = d + 1
    /\ UNCHANGED <<runVars, trafficDetails, world>>

NextAgg == AggStep

SpecAgg == InitAgg /\ [][NextAgg]_vars

\* ================================================================ claims
Items == instances.items

IssuedFor(action, k) ==
    \E n \in 1..Len(calls) : calls[n] = Call(action, k)

AnyCallFor(k) ==
    \E n \in 1..Len(calls) : calls[n].idx = k

\* region and id non-empty, threshold a finite non-negative number
ValidInstance(inst) ==
    /\ inst.region # ""
    /\ inst.id # ""
    /\ inst.threshold.type = "number"
    /\ inst.threshold.n >= 0

\* The run's traffic for a region, read off the mapping.
RegionTraffic(r) ==
    IF r \in DOMAIN trafficByRegion THEN trafficByRegion[r] ELSE ZeroGB

\* traffic >= n gigabytes, for a whole number n (0 <= frac < BytesPerGB)
Reached(t, n) == t.whole >= n

\* Entry k is at or over its threshold in this run.
OverThreshold(k) ==
    Reached(RegionTraffic(Items[k].region), Items[k].threshold.n)

StartedOnlyIfNeeded(dc) ==
    /\ ~IssuedFor("StopInstances", dc.idx)
    /\ IssuedFor("StartInstances", dc.idx) <=> dc.status \notin {"Running", "Starting"}

StoppedOnlyIfNeeded(dc) ==
    /\ ~IssuedFor("StartInstances", dc.idx)
    /\ IssuedFor("StopInstances", dc.idx) <=> dc.status \notin {"Stopped", "Stopping"}

Decs == { decisions[n] : n \in 1..Len(decisions) }

ValidDecs == { dc \in Decs : ValidInstance(Items[dc.idx]) }

\* C1: when the processing of entry k fails (not found, or a failed
\* describe/start/stop call), every valid entry after k still has its
\* status read in the same run.
C1_FailureIsolation ==
    pc = "done" =>
        \A k \in 1..Len(Items), j \in 1..Len(Items) :
            (/\ caught.idx = k
             /\ caught.kind \in {"NotFound", "DescribeError", "ActionError"}
             /\ j > k
             /\ ValidInstance(Items[j]))
            => IssuedFor("DescribeInstances", j)

\* C2: no start or stop call is issued for a valid instance when its
\* traffic is below the threshold and it is Running or Starting, or when
\* its traffic is at or over the threshold and it is Stopped or Stopping.
C2_Idempotence ==
    \A dc \in ValidDecs :
        (\/ ~OverThreshold(dc.idx) /\ dc.status \in {"Running", "Starting"}
         \/ OverThreshold(dc.idx) /\ dc.status \in {"Stopped", "Stopping"})
        => ~IssuedFor("StartInstances", dc.idx) /\ ~IssuedFor("StopInstances", dc.idx)

C2_Witness ==
    /\ pc = "done"
    /\ \E dc \in ValidDecs :
          ~OverThreshold(dc.idx) /\ dc.status = "Starting" /\ dc.traffic # ZeroGB
    /\ \E dc \in ValidDecs : OverThreshold(dc.idx) /\ dc.status = "Stopping"

\* C3: for a valid instance whose status was read, a start call is issued
\* exactly when its region traffic is strictly below its threshold and it
\* is neither Running nor Starting, and a stop call exactly when the
\* traffic is at or over the threshold and it is neither Stopped nor
\* Stopping; traffic equal to the threshold leads to stop.
C3_Direction ==
    \A dc \in ValidDecs :
        /\ IssuedFor("StartInstances", dc.idx) <=>
              (~OverThreshold(dc.idx) /\ dc.status \notin {"Running", "Starting"})
        /\ IssuedFor("StopInstances", dc.idx) <=>
              (OverThreshold(dc.idx) /\ dc.status \notin {"Stopped", "Stopping"})

C3_Witness ==
    \E dc \in ValidDecs :
        /\ RegionTraffic(Items[dc.idx].region) =
              [whole |-> Items[dc.idx].threshold.n, frac |-> 0]
        /\ dc.status = "Running"
        /\ IssuedFor("StopInstances", dc.idx)

\* C4: with the key identifier, the key secret or the instance list absent,
\* or an instance list that is not JSON, no signed request is ever issued.
C4_ConfigAbort ==
    (\/ env.ACCESS_KEY_ID = ""
     \/ env.ACCESS_KEY_SECRET = ""
     \/ env.ECS_INSTANCES_JSON.kind \in {"absent", "garbage"})
    => calls = <<>>

C4_Witness ==
    /\ pc = "done"
    /\ env.ACCESS_KEY_ID # ""
    /\ env.ACCESS_KEY_SECRET = ""
    /\ env.ECS_INSTANCES_JSON.kind = "array"
    /\ Len(env.ECS_INSTANCES_JSON.items) > 0
    /\ calls = <<>>

\* C5: an instance list that is not a well-formed JSON array (JSON objects,
\* numbers and null included) ends the run before any network call.
C5_MalformedArrayAbort ==
    env.ECS_INSTANCES_JSON.kind # "array" => calls = <<>>

\* Two instances of one region, the first with its threshold above the
\* region's traffic and the second with its threshold at or below it.
Straddling(a, b) ==
    /\ Items[a.idx].region = Items[b.idx].region
    /\ ~OverThreshold(a.idx)
    /\ OverThreshold(b.idx)

\* C6: instances of one region are decided against the same traffic figure
\* and each against its own threshold: in one run the instance whose
\* threshold is above the region traffic is desired Running while a sibling
\* whose threshold is at or below it is desired Stopped.
C6_PerInstanceDecision ==
    \A a \in ValidDecs, b \in ValidDecs :
        /\ Items[a.idx].region = Items[b.idx].region => a.traffic = b.traffic
        /\ Straddling(a, b) => StartedOnlyIfNeeded(a) /\ StoppedOnlyIfNeeded(b)

C6_Witness ==
    /\ pc = "done"
    /\ \E a \in ValidDecs, b \in ValidDecs :
          /\ Straddling(a, b)
          /\ a.status = "Stopped"
          /\ b.status = "Running"
          /\ IssuedFor("StartInstances", a.idx)
          /\ IssuedFor("StopInstances", b.idx)

\* Valid entries configured in the region of entry k
SameRegion(k) ==
    { j \in 1..Len(Items) :
        ValidInstance(Items[j]) /\ Items[j].region = Items[k].region }

C8_InvalidSkipped ==
    \A k \in 1..Len(Items) : ~ValidInstance(Items[k]) => ~AnyCallFor(k)

\* C9: an instance whose region is not in the run's traffic mapping is
\* decided with a traffic figure of exactly 0, so with a threshold above 0
\* it is desired Running.
C9_UnseenRegionIsZero ==
    \A dc \in Decs :
        Items[dc.idx].region \notin DOMAIN trafficByRegion =>
            /\ dc.traffic = ZeroGB
            /\ (\/ Items[dc.idx].threshold.type = "infinity"
                \/ /\ Items[dc.idx].threshold.type = "number"
                   /\ Items[dc.idx].threshold.n > 0)
               => StartedOnlyIfNeeded(dc)

C9_Witness ==
    /\ pc = "done"
    /\ DOMAIN trafficByRegion # {}
    /\ \E dc \in ValidDecs :
          /\ Items[dc.idx].region \notin DOMAIN trafficByRegion
          /\ dc.status = "Stopped"
          /\ IssuedFor("StartInstances", dc.idx)

\* Records that name region r
RecordsOf(r) ==
    { k \in 1..Len(trafficDetails) :
        /\ "BusinessRegionId" \in DOMAIN trafficDetails[k]
        /\ trafficDetails[k].BusinessRegionId = r }

\* Byte count of record k, 0 when it has none
BytesOf(k) ==
    IF "Traffic" \in DOMAIN trafficDetails[k] THEN trafficDetails[k].Traffic ELSE 0

RECURSIVE SumOver(_, _)
SumOver(S, f) ==
    IF S = {} THEN 0
    ELSE LET k == CHOOSE x \in S : TRUE
         IN f[k] + SumOver(S \ {k}, f)

\* Whole gigabytes and left-over bytes of the records that name region r,
\* each summed over the records.
WholeSum(r) ==
    SumOver(RecordsOf(r), [k \in 1..Len(trafficDetails) |-> BytesOf(k) \div BytesPerGB])

RestSum(r) ==
    SumOver(RecordsOf(r), [k \in 1..Len(trafficDetails) |-> BytesOf(k) % BytesPerGB])

\* C10: the mapping getTrafficByRegion returns has exactly the regions
\* named on some record as its keys, and for each of them the sum of the
\* byte counts of the records naming it (0 for a missing count) divided by
\* 1024^3; records without a region add to no key and an empty list gives
\* an empty mapping.
C10_Aggregation ==
    d = Len(trafficDetails) =>
        /\ DOMAIN trafficByRegion = { r \in Regions : RecordsOf(r) # {} }
        /\ \A r \in DOMAIN trafficByRegion :
              /\ trafficByRegion[r].whole = WholeSum(r) + (RestSum(r) \div BytesPerGB)
              /\ trafficByRegion[r].frac = RestSum(r) % BytesPerGB

C10_Witness ==
    /\ d = Len(trafficDetails)
    /\ d = 2
    /\ \E r \in Regions :
          /\ RecordsOf(r) = {1, 2}
          /\ BytesOf(1) = BytesPerGB \div 2
          /\ BytesOf(2) = BytesPerGB \div 2
          /\ trafficByRegion[r] = [whole |-> 1, frac |-> 0]

\* C11: whatever fails inside the run, the fetch entry point answers only
\* after the run has ended, and only ever with the success response 200.
C11_FetchAlwaysSucceeds ==
    /\ response \in {0, 200}
    /\ response # 0 => pc = "done"

C11_Witness ==
    /\ response = 200
    /\ caught.kind \in {"InvalidJson", "NotFound", "ActionError", "TrafficError"}

\* C12: when the describe call of an entry finds no instance, or fails, no
\* status is returned for it and no start or stop call is issued for it in
\* that run.
C12_NotFoundNeverDefaulted ==
    \A k \in 1..Len(Items) :
        (caught.idx = k /\ caught.kind \in {"NotFound", "DescribeError"}) =>
            /\ pc = "done"
            /\ \A dc \in Decs : dc.idx # k
            /\ ~IssuedFor("StartInstances", k)
            /\ ~IssuedFor("StopInstances", k)

C12_Witness ==
    /\ pc = "done"
    /\ caught.kind = "NotFound"
    /\ caught.idx = 2
    /\ ValidInstance(Items[2])
    /\ IssuedFor("DescribeInstances", 2)
    /\ IssuedFor("StartInstances", 1)

\* The configured instance list, as the environment holds it.
Config == env.ECS_INSTANCES_JSON.items

\* Entry k is at or over its threshold in the traffic the provider serves.
FeedOver(k) ==
    FeedReached(trafficDetails, Config[k].region, Config[k].threshold.n)

DesiredAt(k) == IF FeedOver(k) THEN "Stopped" ELSE "Running"

\* The instance of entry k is in its desired state or on its way to it.
Converging(k) ==
    ecs[Config[k].region] \in
        (IF FeedOver(k) THEN {"Stopped", "Stopping"} ELSE {"Running", "Starting"})

\* This step issues a start or stop call for entry k.
ActuationAdded(k) ==
    /\ Len(calls') > Len(calls)
    /\ calls'[Len(calls')].idx = k
    /\ calls'[Len(calls')].action \in {"StartInstances", "StopInstances"}

\* C15: with a fixed config, traffic that stays on the same side of each
\* threshold, calls that succeed and a provider that completes transitions,
\* repeated runs bring every instance to its desired state for good, and
\* once an instance is in its desired or converging status no run issues a
\* start or stop call for it any more.
C15_Convergence ==
    /\ <>[](\A k \in DOMAIN Config : ecs[Config[k].region] = DesiredAt(k))
    /\ [][\A k \in DOMAIN Config :
            Converging(k) => Converging(k)' /\ ~ActuationAdded(k)]_vars

C15_Witness ==
    /\ pc = "done"
    /\ Len(Config) = 2
    /\ IssuedFor("StartInstances", 1)
    /\ IssuedFor("StopInstances", 2)
    /\ ecs[Config[1].region] = "Running"
    /\ ecs[Config[2].region] = "Stopped"

\* Number of calls of the current run for entry k with an action in A.
CallCount(A, k) ==
    Cardinality({ n \in 1..Len(calls) : calls[n].idx = k /\ calls[n].action \in A })

\* A start or stop call of the current run is backed by what this run
\* itself compared and observed.
Warranted(c) ==
    \E dc \in Decs :
        /\ dc.idx = c.idx
        /\ IF c.action = "StartInstances"
           THEN ~OverThreshold(c.idx) /\ dc.status \notin {"Running", "Starting"}
           ELSE OverThreshold(c.idx) /\ dc.status \notin {"Stopped", "Stopping"}

\* C13: a run issues at most one traffic listing and, per entry, at most one
\* describe call and at most one start-or-stop call; it issues nothing after
\* one of its requests has failed; and a start or stop is issued (again)
\* only by a run whose own traffic figure and observed status call for it.
C13_NoRetry ==
    /\ [](/\ CallCount({"ListCdtInternetTraffic"}, 0) <= 1
          /\ \A k \in DOMAIN Config :
                /\ CallCount({"DescribeInstances"}, k) <= 1
                /\ CallCount({"StartInstances", "StopInstances"}, k) <= 1
          /\ \A n \in 1..Len(calls) :
                calls[n].action \in {"StartInstances", "StopInstances"}
                => Warranted(calls[n]))
    /\ [][Len(calls') > Len(calls) => caught.kind = "none"]_vars

C13_Witness ==
    /\ previous.pc = "done"
    /\ previous.caught = [kind |-> "ActionError", idx |-> 1]
    /\ previous.calls[Len(previous.calls)] = Call("StartInstances", 1)
    /\ IssuedFor("StartInstances", 1)
    /\ pc = "done"
    /\ caught.kind = "none"

\* C14: a run that passes the config checks issues exactly one traffic
\* listing, before any instance call; instance calls follow the config order,
\* the describe call of an entry before its start or stop; only the last
\* call can be awaiting its reply, every earlier describe having returned its
\* status; and every decision uses the mapping of that one listing.
C14_CallOrder ==
    /\ (pc # "start" /\ caught.kind \notin {"MissingEnv", "InvalidJson"})
          => CallCount({"ListCdtInternetTraffic"}, 0) = 1
    /\ \A n \in 1..Len(calls) :
          (calls[n].action = "ListCdtInternetTraffic") <=> (n = 1)
    /\ \A m \in 2..Len(calls), n \in 2..Len(calls) :
          m < n =>
             /\ calls[m].idx <= calls[n].idx
             /\ calls[m].idx = calls[n].idx =>
                   /\ n = m + 1
                   /\ calls[m].action = "DescribeInstances"
                   /\ calls[n].action \in {"StartInstances", "StopInstances"}
    /\ \A n \in 2..Len(calls) :
          (n < Len(calls) /\ calls[n].action = "DescribeInstances")
             => \E dc \in Decs : dc.idx = calls[n].idx
    /\ pc = "awaitDescribe" => calls[Len(calls)] = Call("DescribeInstances", i)
    /\ pc = "awaitAction" =>
          /\ calls[Len(calls)].idx = i
          /\ calls[Len(calls)].action \in {"StartInstances", "StopInstances"}
    /\ \A dc \in Decs : dc.traffic = RegionTraffic(Items[dc.idx].region)

C14_Witness ==
    /\ pc = "done"
    /\ caught.kind = "none"
    /\ DOMAIN trafficByRegion # {}
    /\ calls = << Call("ListCdtInternetTraffic", 0),
                  Call("DescribeInstances", 1), Call("StartInstances", 1),
                  Call("DescribeInstances", 2), Call("StopInstances", 2) >>

\* C18: when the traffic listing fails the run ends with the listing as its
\* only request: no entry is examined, described, started or stopped.  A
\* listing that succeeds with nothing to report is no failure: the loop is
\* entered, the first valid entry is described, every decision is made on
\* zero traffic and no entry with a positive threshold is stopped.
C18_TrafficFailureAborts ==
    /\ caught.kind = "TrafficError" =>
          /\ pc = "done"
          /\ calls = << Call("ListCdtInternetTraffic", 0) >>
          /\ decisions = <<>>
          /\ skipped = {}
          /\ i = 0
    /\ GetTrafficByRegion(<<>>) = <<>>
    /\ ( /\ pc \notin {"start", "awaitTraffic"}
         /\ caught.kind \notin {"MissingEnv", "InvalidJson", "TrafficError", "NotIterable"}
         /\ DOMAIN trafficByRegion = {} ) =>
          /\ i >= 1
          /\ \A dc \in Decs : dc.traffic = ZeroGB
          /\ NextIndex(Items, 1) <= Len(Items)
                => IssuedFor("DescribeInstances", NextIndex(Items, 1))
          /\ \A k \in 1..Len(Items) :
                (ValidInstance(Items[k]) /\ Items[k].threshold.n > 0)
                   => ~IssuedFor("StopInstances", k)

C18_Witness ==
    /\ caught.kind = "TrafficError"
    /\ Len(Items) = 2
    /\ \A k \in 1..2 : ValidInstance(Items[k])

\* The other half of C18 happens too: a run on an empty mapping that went on
\* to start an instance.
C18_EmptyReplyProceeds ==
    /\ pc = "done"
    /\ caught.kind = "none"
    /\ DOMAIN trafficByRegion = {}
    /\ IssuedFor("StartInstances", 1)
    /\ IssuedFor("DescribeInstances", 2)

\* C19: when every request eventually returns or fails, the run ends; at
\* every moment it has issued at most 1 + 2 * N signed requests for a config
\* list of N entries, and it issues them one at a time.
C19_TerminatesWithinBudget ==
    /\ <>(pc = "done")
    /\ [](Len(calls) <= 1 + 2 * Len(Config))
    /\ [][Len(calls') <= Len(calls) + 1]_vars

C19_Witness ==
    /\ pc = "done"
    /\ Len(Config) = MaxInstances
    /\ Len(calls) = 1 + 2 * MaxInstances

\* The describe/start/stop requests of a log of signed requests, in order.
InstanceCalls(log) ==
    SelectSeq(log, LAMBDA c : c.action # "ListCdtInternetTraffic")

Failed(c) ==
    c.kind \in {"TrafficError", "DescribeError", "NotFound", "ActionError"}

\* Both engines have ended and their requests were answered alike: none
\* failed, or the same kind of request failed in both.
BothEndedAlike ==
    /\ pc = "done"
    /\ other.pc = "done"
    /\ \/ ~Failed(caught) /\ ~Failed(other.caught)
       \/ caught.kind = other.caught.kind

OnlyOwnRegionTraffic ==
    /\ ParseFloat(Config[1].threshold).kind # "NaN"
    /\ \A n \in 1..Len(trafficDetails) :
          DetailTraffic(trafficDetails[n]) # 0
             => DetailRegion(trafficDetails[n]) = Config[1].region

OtherIssued(action, k) ==
    \E n \in 1..Len(other.calls) : other.calls[n] = Call(action, k)

\* The waiting run's stop request for entry k has been carried out.
OtherStopServed(k) ==
    /\ OtherIssued("StopInstances", k)
    /\ ~(other.pc = "awaitAction" /\ other.i = k)
    /\ ~(other.caught.kind = "ActionError" /\ other.caught.idx = k)

\* The current run's stop request for entry k has been carried out.
StopServed(k) ==
    /\ IssuedFor("StopInstances", k)
    /\ ~(pc = "awaitAction" /\ i = k)
    /\ ~(caught.kind = "ActionError" /\ caught.idx = k)

\* Neither of the two runs has asked for entry k to be started.
NoStartFor(k) ==
    /\ ~IssuedFor("StartInstances", k)
    /\ ~OtherIssued("StartInstances", k)

\* The run has the provider to itself and has ended without a failure.
SoloDone ==
    /\ other.pc = "none"
    /\ previous.pc = "done"
    /\ pc = "done"
    /\ caught.kind = "none"

\* C16: when two overlapping runs both stop the same instance, the instance
\* is where one stop leaves it (stopping or stopped), and the stop that is
\* carried out second changes nothing at the provider; and a run that has
\* the provider to itself after two overlapping ones leaves every instance
\* on the side its own traffic figure calls for, whatever those two did.
C16_DoubleStopAndRecovery ==
    /\ [](\A k \in DOMAIN Config :
            (other.pc # "none" /\ StopServed(k) /\ OtherStopServed(k) /\ NoStartFor(k))
               => ecs[Config[k].region] \in {"Stopping", "Stopped"})
    /\ [][( /\ other.pc # "none"
            /\ other' = other
            /\ pc = "awaitAction"
            /\ i' > i
            /\ calls[Len(calls)].action = "StopInstances"
            /\ OtherStopServed(i)
            /\ NoStartFor(i) ) => ecs' = ecs]_vars
    /\ [](SoloDone =>
            \A k \in DOMAIN Config :
               ecs[Config[k].region] \in
                  (IF OverThreshold(k) THEN {"Stopping", "Stopped"}
                                       ELSE {"Running", "Starting"}))

\* Both runs read a status that is not stopped and both asked for the stop.
C16_Witness ==
    /\ pc = "done"
    /\ other.pc = "done"
    /\ StopServed(1)
    /\ OtherStopServed(1)
    /\ \E dc \in Decs : dc.idx = 1 /\ dc.status = "Running"
    /\ \E n \in 1..Len(other.decisions) :
          other.decisions[n].idx = 1 /\ other.decisions[n].status = "Running"
    /\ ecs[Config[1].region] \in {"Stopping", "Stopped"}

\* The race happens and is put right: the two runs asked for opposite
\* actions on entry 1, and the run after them has ended.
C16_RaceCorrected ==
    /\ SoloDone
    /\ 1 \in previous.raced
    /\ IssuedFor("StartInstances", 1)

\* Entry k is at or over its threshold in the waiting run's mapping.
OtherOver(k) ==
    LET r == Config[k].region
    IN Reached(IF r \in DOMAIN other.trafficByRegion
               THEN other.trafficByRegion[r] ELSE ZeroGB, Config[k].threshold.n)

\* C17: in each of two overlapping runs a start is asked only for an entry
\* under its threshold in that run's mapping and a stop only for one at or
\* over it, so runs holding the same mapping never ask for opposite actions
\* on the same entry.
C17_NoOppositeActions ==
    other.pc # "none" =>
       /\ \A k \in DOMAIN Config :
             /\ IssuedFor("StartInstances", k) => ~OverThreshold(k)
             /\ IssuedFor("StopInstances", k) => OverThreshold(k)
             /\ OtherIssued("StartInstances", k) => ~OtherOver(k)
             /\ OtherIssued("StopInstances", k) => OtherOver(k)
       /\ trafficByRegion = other.trafficByRegion => Raced = {}

\* Same mapping, different observed statuses, one stop between the two.
C17_Witness ==
    /\ pc = "done"
    /\ other.pc = "done"
    /\ DOMAIN trafficByRegion # {}
    /\ trafficByRegion = other.trafficByRegion
    /\ \E dc \in Decs : dc.idx = 1 /\ dc.status = "Stopping"
    /\ \E n \in 1..Len(other.decisions) :
          other.decisions[n].idx = 1 /\ other.decisions[n].status = "Running"
    /\ OtherIssued("StopInstances", 1)
    /\ ~IssuedFor("StopInstances", 1)

\* The object with the properties at positions a and b exchanged.
Swap(obj, a, b) ==
    [n \in 1..Len(obj) |-> IF n = a THEN obj[b] ELSE IF n = b THEN obj[a] ELSE obj[n]]

\* The same key/value pairs inserted in another order: any two properties
\* exchanged, or all of them in reverse.
Reorderings(obj) ==
    { Swap(obj, a, b) : a \in 1..Len(obj), b \in 1..Len(obj) }
    \cup { [n \in 1..Len(obj) |-> obj[Len(obj) + 1 - n]] }

\* The object without the property k.
Without(obj, k) == SelectSeq(obj, LAMBDA p : p.key # k)

\* A query string cut at its & characters.
RECURSIVE Segments(_)
Segments(q) ==
    IF q = <<>> THEN <<>>
    ELSE LET cut == IF \E n \in 1..Len(q) : q[n] = Chr("&")
                    THEN CHOOSE n \in 1..Len(q) :
                            /\ q[n] = Chr("&")
                            /\ \A m \in 1..(n - 1) : q[m] # Chr("&")
                    ELSE Len(q) + 1
         IN << SubSeq(q, 1, cut - 1) >> \o Segments(SubSeq(q, cut + 1, Len(q)))

RECURSIVE JoinSegments(_)
JoinSegments(segs) ==
    IF segs = <<>> THEN <<>>
    ELSE IF Len(segs) = 1 THEN segs[1]
    ELSE segs[1] \o << Chr("&") >> \o JoinSegments(Tail(segs))

\* The query string as sent, with its Signature parameter taken out.
SentWithoutSignature(q) ==
    JoinSegments(SelectSeq(Segments(q), LAMBDA s : s[1] # Run("Signature")))

\* The Signature parameters of the query string as sent.
SentSignatures(q) == SelectSeq(Segments(q), LAMBDA s : s[1] = Run("Signature"))

\* C21: the signature of a parameter object is the same for every insertion
\* order of its key/value pairs, the caller's params included; and the
\* request that is sent carries one Signature parameter, the encoded
\* signature computed over the query string made of exactly the other
\* parameters sent.
C21_SignatureDeterminism ==
    request.pc \notin {"none", "start"} =>
       LET unsigned == Without(request.finalParams, "Signature")
           secret == Text(env.ACCESS_KEY_SECRET)
       IN /\ \A q \in Reorderings(unsigned) :
                Sign(q, secret, request.method) = Sign(unsigned, secret, request.method)
          /\ \A q \in Reorderings(request.params) :
                Sign(FinalParams(q, env, request.nonce, request.timestamp),
                     secret, request.method)
                   = Sign(unsigned, secret, request.method)
          /\ request.pc # "awaitSign" =>
                /\ request.signature = Sign(unsigned, secret, request.method)
                /\ request.signature =
                      HmacSha1(secret \o << Chr("&") >>,
                               StringToSign(request.method,
                                            SentWithoutSignature(request.queryString)))
                /\ SentSignatures(request.queryString) =
                      << << Run("Signature"), Chr("=") >>
                            \o PercentEncode(request.signature) >>
                /\ Len(Segments(request.queryString)) = Len(request.params) + 7

\* A stop request has been sent: eleven parameters that were not inserted in
\* sorted order, one of them with characters to escape, and the signature.
C21_Witness ==
    /\ request.pc = "awaitFetch"
    /\ \E n \in 1..Len(request.params) : request.params[n].key = "ForceStop"
    /\ ObjectKeys(request.finalParams) # Sort(ObjectKeys(request.finalParams))
    /\ Len(Segments(request.queryString)) = 12
    /\ request.signature # <<>>
    /\ \E q \in Reorderings(request.params) : q # request.params

====
